---- MODULE Spec2Model ----
(* Model of the product search and price comparison pipeline:              *)
(*   src/main.ts            main (build query -> search -> display)        *)
(*   src/search-product.ts  keepEnglish, searchProductPrices, formatPrice, *)
(*                          displayTable, padString, truncateString        *)
(* Text that the code transforms is a sequence of UTF-16 code units        *)
(* (integers); text the code only passes on is a TLA+ string.              *)
EXTENDS Integers, Sequences, FiniteSets, TLC

VARIABLES
  env,            \* process.env, as far as search-product.ts reads it
  analysis,       \* how the findProductFeatures call of this run settles
  upstream,       \* how the getJson call of this run settles
  pc,             \* position of the running caller
  findResult,     \* main.ts:25
  searchResults,  \* main.ts:49
  promise,        \* the promise searchProductPrices returned
  completions,    \* times getJson has completed (callback run or rejection)
  requests,       \* parameter objects handed to getJson
  searchCalls,    \* arguments of the searchProductPrices calls
  displayCalls,   \* arguments of the displayTable calls
  out,            \* console lines, oldest first
  input,          \* arguments of the query builder call under check
  output,         \* what that call returned
  labelCalls      \* arguments of the image labeler calls

vars == <<env, analysis, upstream, pc, findResult, searchResults, promise,
          completions, requests, searchCalls, displayCalls, out, input,
          output, labelCalls>>

---------------------------------------------------------------------------
(* Bounds of the model *)

MaxListings == 2
MaxTextLen == 3
MaxTokens == 2
MaxImages == 2

---------------------------------------------------------------------------
(* Text *)

\* The code units String.prototype.trim removes (WhiteSpace and LineTerminator).
WhiteSpace ==
  {9, 10, 11, 12, 13, 32, 160, 5760, 8232, 8233, 8239, 8287, 12288, 65279}
    \cup (8192..8202)

RECURSIVE trimStart(_)
trimStart(s) ==
  IF s = <<>> THEN s
  ELSE IF Head(s) \in WhiteSpace THEN trimStart(Tail(s)) ELSE s

RECURSIVE trimEnd(_)
trimEnd(s) ==
  IF s = <<>> THEN s
  ELSE IF s[Len(s)] \in WhiteSpace THEN trimEnd(SubSeq(s, 1, Len(s) - 1)) ELSE s

trim(s) == trimEnd(trimStart(s))

\* text.replace(/[^\x00-\x7F]/g, ""): every code unit above 0x7F is removed.
stripNonBasicLatin(s) == SelectSeq(s, LAMBDA c : c \in 0..127)

\* A plausible slip: trimming before the replacement instead of after it.
keepEnglishTrimFirst(text) ==
  IF text = <<>> THEN <<>> ELSE stripNonBasicLatin(trim(text))

keepEnglish(text) ==
  IF text = <<>> THEN <<>> ELSE trim(stripNonBasicLatin(text))

\* `r.f || dflt` for a text field that may be absent or empty.
OrElse(r, f, dflt) ==
  IF f \in DOMAIN r /\ r[f] # <<>> THEN r[f] ELSE dflt

repeat(c, n) == [i \in 1..n |-> c]

---------------------------------------------------------------------------
(* Formatting *)

columnWidths == [ecommerce |-> 30, price |-> 15, title |-> 60]

padString(str, length) ==
  IF Len(str) >= length THEN str ELSE str \o repeat(32, length - Len(str))

truncateString(str, maxLength) ==
  IF Len(str) <= maxLength THEN str
  ELSE SubSeq(str, 1, maxLength - 3) \o <<46, 46, 46>>

RECURSIVE digits(_)
digits(n) == IF n < 10 THEN <<48 + n>> ELSE digits(n \div 10) \o <<48 + (n % 10)>>

RECURSIVE groupByTwo(_)
groupByTwo(ds) ==
  IF Len(ds) <= 2 THEN ds
  ELSE groupByTwo(SubSeq(ds, 1, Len(ds) - 2)) \o <<44>>
         \o SubSeq(ds, Len(ds) - 1, Len(ds))

\* Number.prototype.toLocaleString("en-IN") of a non-negative integer: the
\* last three digits, then groups of two, separated by commas.
toLocaleString(n) ==
  LET ds == digits(n) IN
  IF Len(ds) <= 3 THEN ds
  ELSE groupByTwo(SubSeq(ds, 1, Len(ds) - 3)) \o <<44>>
         \o SubSeq(ds, Len(ds) - 2, Len(ds))

\* The three code units the template literal of formatPrice starts with.
currencyPrefix == <<226, 8218, 185>>

formatPrice(price) == currencyPrefix \o toLocaleString(price)

---------------------------------------------------------------------------
(* The environment of one run *)

\* process.env.SERPAPI_API_KEY: unset, set to the empty string, or set.
Environments ==
  {[v \in {} |-> ""],
   [v \in {"SERPAPI_API_KEY"} |-> ""],
   [v \in {"SERPAPI_API_KEY"} |-> "secret"]}

\* Text literals: "iqoo neo 10r 12 + 256", "Amazon.in", "iQOO Neo 10R", ...
QueryText ==
  <<105, 113, 111, 111, 32, 110, 101, 111, 32, 49, 48, 114, 32, 49, 50, 32,
    43, 32, 50, 53, 54>>
AmazonText == <<65, 109, 97, 122, 111, 110, 46, 105, 110>>
PhoneText == <<105, 81, 79, 79, 32, 78, 101, 111, 32, 49, 48, 82>>
\* " iQOO <U+0928><U+093F><U+092F><U+094B> <BEL>5G <U+00A0>"
MixedText ==
  <<32, 105, 81, 79, 79, 32, 2344, 2367, 2351, 2379, 32, 7, 53, 71, 32, 160>>

\* ShoppingResult values the provider may send.  title and source may be
\* missing although the interface declares them (the code guards both with
\* `|| ""`); extracted_price is a non-negative integer.
ProviderListings ==
  {[position |-> 1, title |-> PhoneText, link |-> "https://a.example/1",
    source |-> AmazonText, price |-> "Rs 24,999", extracted_price |-> 24999,
    rating |-> 4, reviews |-> 120, thumbnail |-> "https://a.example/1.png"],
   [position |-> 2, title |-> repeat(97, columnWidths.title + 1),
    link |-> "https://b.example/2",
    source |-> repeat(98, columnWidths.ecommerce + 1),
    price |-> "Rs 1,23,45,67,890", extracted_price |-> 1234567890],
   [position |-> 3, title |-> MixedText, link |-> "https://c.example/3",
    source |-> <<2344, 32, 2367>>, price |-> "Rs 0", extracted_price |-> 0],
   [position |-> 4, link |-> "https://d.example/4", price |-> "Rs 100000000",
    extracted_price |-> 100000000]}

\* A listing that breaks the interface: the provider sent no extracted_price.
UnpricedListing ==
  [position |-> 5, title |-> PhoneText, link |-> "https://e.example/5",
   source |-> AmazonText, price |-> "Rs 19,999"]

RECURSIVE SeqsUpTo(_, _)
SeqsUpTo(S, n) ==
  IF n = 0 THEN {<<>>}
  ELSE LET shorter == SeqsUpTo(S, n - 1) IN
       shorter \cup {Append(s, x) : s \in shorter, x \in S}

\* SerpApiResponse values: with or without the shopping_results array.
Responses ==
  {[search_information |-> "none"]}
    \cup {[shopping_results |-> ls] : ls \in SeqsUpTo(ProviderListings, MaxListings)}

\* How getJson settles: its callback is called with the response and its
\* promise fulfils, or its promise rejects with an error.
UpstreamOutcomes ==
  {[kind |-> "json", json |-> j] : j \in Responses}
    \cup {[kind |-> "error", message |-> m] : m \in {"Request timed out"}}

\* The same, with a provider that may leave extracted_price out.
UntypedUpstreamOutcomes ==
  UpstreamOutcomes
    \cup {[kind |-> "json", json |-> [shopping_results |-> ls]]
            : ls \in SeqsUpTo(ProviderListings \cup {UnpricedListing}, MaxListings)}

\* How findProductFeatures settles for main: a ProductSearchResult of either
\* variant, or a rejection.
AnalysisOutcomes ==
  {[kind |-> "result", result |-> [success |-> TRUE, searchQuery |-> q, error |-> ""]]
     : q \in {QueryText, <<>>}}
    \cup {[kind |-> "result",
           result |-> [success |-> FALSE, searchQuery |-> <<>>, error |-> e]]
            : e \in {"Image file not found: test/test1.jpeg"}}
    \cup {[kind |-> "throw", message |-> "analysis rejected"]}

---------------------------------------------------------------------------
(* searchProductPrices *)

CredentialName == "SERPAPI_API_KEY"

\* `!apiKey`: the variable is unset or is the empty string.
NoApiKey(e) == CredentialName \notin DOMAIN e \/ e[CredentialName] = ""

NoPromise == [state |-> "none", value |-> <<>>, error |-> ""]
Pending == [state |-> "pending", value |-> <<>>, error |-> ""]

\* resolve and reject of `new Promise`: only a pending promise settles.
resolve(p, v) ==
  IF p.state = "pending" THEN [state |-> "fulfilled", value |-> v, error |-> ""]
  ELSE p

reject(p, message) ==
  IF p.state = "pending" THEN [state |-> "rejected", value |-> <<>>, error |-> message]
  ELSE p

\* An async function that throws returns a rejected promise.
rejected(message) == reject(Pending, message)

\* `json.shopping_results || []`
raw(json) ==
  IF "shopping_results" \in DOMAIN json THEN json.shopping_results ELSE <<>>

\* A plausible slip: the listing is rebuilt from the required fields instead
\* of being spread.
normalizeRequiredOnly(r) ==
  [f \in (DOMAIN r \cap {"position", "link", "price", "extracted_price"})
            \cup {"title", "source"} |->
     CASE f = "title" -> keepEnglish(OrElse(r, "title", <<>>))
       [] f = "source" -> keepEnglish(OrElse(r, "source", <<>>))
       [] OTHER -> r[f]]

\* One element of raw.map: the listing with title and source replaced.
normalize(r) ==
  [f \in DOMAIN r \cup {"title", "source"} |->
     CASE f = "title" -> keepEnglish(OrElse(r, "title", <<>>))
       [] f = "source" -> keepEnglish(OrElse(r, "source", <<>>))
       [] OTHER -> r[f]]

filtered(json) == [i \in 1..Len(raw(json)) |-> normalize(raw(json)[i])]

\* A plausible slip: no `|| []`, so that a response without the array makes
\* the callback throw inside getJson, whose promise then rejects.
getJsonCallbackNoDefault(p, json) ==
  IF "shopping_results" \in DOMAIN json THEN resolve(p, filtered(json))
  ELSE reject(p, "SerpAPI search failed: Cannot read properties of undefined")

\* The callback handed to getJson.
getJsonCallback(p, json) == resolve(p, filtered(json))

\* A plausible slip: the handler swallows the error and resolves empty.
getJsonCatchSwallow(p, message) == resolve(p, <<>>)

\* The .catch handler on getJson's promise.
getJsonCatch(p, message) == reject(p, "SerpAPI search failed: " \o message)

\* A plausible slip: only an unset variable counts as missing.
searchProductPricesUnsetOnly(e, query) ==
  IF CredentialName \notin DOMAIN e
    THEN [promise |-> rejected(CredentialName \o " not found in environment variables"),
          sent |-> <<>>]
    ELSE [promise |-> Pending, sent |-> <<[api_key |-> e[CredentialName], q |-> query]>>]

\* The synchronous part of searchProductPrices: the promise it returns and
\* the parameter objects it hands to getJson.
searchProductPrices(e, query) ==
  IF NoApiKey(e)
    THEN [promise |-> rejected(CredentialName \o " not found in environment variables"),
          sent |-> <<>>]
    ELSE [promise |-> Pending, sent |-> <<[api_key |-> e[CredentialName], q |-> query]>>]

---------------------------------------------------------------------------
(* displayTable *)

UnknownText == <<85, 110, 107, 110, 111, 119, 110>>
NoTitleText == <<78, 111, 32, 116, 105, 116, 108, 101>>

\* The console line of one listing; its three cells are kept apart.
tableRow(result) ==
  [line |-> "row",
   ecommerce |-> padString(truncateString(OrElse(result, "source", UnknownText),
                                          columnWidths.ecommerce),
                           columnWidths.ecommerce),
   price |-> padString(formatPrice(result.extracted_price), columnWidths.price),
   title |-> padString(truncateString(OrElse(result, "title", NoTitleText),
                                      columnWidths.title),
                       columnWidths.title)]

\* A plausible slip: the footer counts the separator row as well.
tableFooterOffByOne(results) ==
  <<[line |-> "rule="], [line |-> "total", count |-> Len(results) + 1]>>

tableFooter(results) ==
  <<[line |-> "rule="], [line |-> "total", count |-> Len(results)]>>

\* formatPrice(undefined) throws a TypeError (`numPrice.toLocaleString` of
\* undefined): the listings before the first one without extracted_price.
rowsBeforeThrow(results) ==
  IF \A i \in DOMAIN results : "extracted_price" \in DOMAIN results[i]
    THEN Len(results)
    ELSE (CHOOSE i \in DOMAIN results :
            /\ "extracted_price" \notin DOMAIN results[i]
            /\ \A j \in 1..(i - 1) : "extracted_price" \in DOMAIN results[j]) - 1

displayThrows(results) == rowsBeforeThrow(results) < Len(results)

tableBody(results) ==
  IF Len(results) = 0 THEN <<[line |-> "No results found!"]>>
  ELSE [i \in 1..rowsBeforeThrow(results) |-> tableRow(results[i])]

\* The console lines of displayTable(results), up to the throw if it throws.
displayTable(results) ==
  <<[line |-> "rule="], [line |-> "header"], [line |-> "rule="], [line |-> "rule-"]>>
    \o tableBody(results)
    \o (IF displayThrows(results) THEN <<>> ELSE tableFooter(results))

\* What the catch block of main logs after displayTable(results).
displayCaught(results) ==
  IF displayThrows(results)
    THEN <<[line |-> "fatal",
            error |-> "TypeError: Cannot read properties of undefined"]>>
    ELSE <<>>

---------------------------------------------------------------------------
(* main *)

NoResult == [unset |-> TRUE]
NoInput == [unset |-> TRUE]

\* The state main starts in, for a provider that answers with one of
\* `outcomes`.
InitWith(outcomes) ==
  /\ env \in Environments
  /\ analysis \in AnalysisOutcomes
  /\ upstream \in outcomes
  /\ pc = "main"
  /\ findResult = NoResult
  /\ searchResults = <<>>
  /\ promise = NoPromise
  /\ completions = 0
  /\ requests = <<>>
  /\ searchCalls = <<>>
  /\ displayCalls = <<>>
  /\ out = <<>>
  /\ input = NoInput
  /\ output = <<>>
  /\ labelCalls = <<>>

Init == InitWith(UpstreamOutcomes)

InitUntyped == InitWith(UntypedUpstreamOutcomes)

\* main.ts:19-25, up to the first await.
MainStart ==
  /\ pc = "main"
  /\ pc' = "awaitFind"
  /\ out' = out \o <<[line |-> "banner"], [line |-> "step1"]>>
  /\ UNCHANGED <<labelCalls, input, output,
                 env, analysis, upstream, findResult, searchResults, promise,
                 completions, requests, searchCalls, displayCalls>>

\* A plausible slip: the failure branch reports the error and falls through.
AnalysisFailedNoReturn ==
  /\ pc = "awaitFind"
  /\ analysis.kind = "result"
  /\ ~analysis.result.success
  /\ findResult' = analysis.result
  /\ out' = out \o <<[line |-> "errorBuilding", error |-> analysis.result.error],
                     [line |-> "step2"]>>
  /\ searchCalls' = Append(searchCalls, analysis.result.searchQuery)
  /\ promise' = searchProductPrices(env, analysis.result.searchQuery).promise
  /\ requests' = requests \o searchProductPrices(env, analysis.result.searchQuery).sent
  /\ pc' = "awaitSearch"
  /\ UNCHANGED <<labelCalls, input, output,
                 env, analysis, upstream, searchResults, completions, displayCalls>>

\* main.ts:25-35: the analysis resolves with a failure variant.
AnalysisFailed ==
  /\ pc = "awaitFind"
  /\ analysis.kind = "result"
  /\ ~analysis.result.success
  /\ findResult' = analysis.result
  /\ out' = Append(out, [line |-> "errorBuilding", error |-> analysis.result.error])
  /\ pc' = "returned"
  /\ UNCHANGED <<labelCalls, input, output,
                 env, analysis, upstream, searchResults, promise, completions,
                 requests, searchCalls, displayCalls>>

\* main.ts:25-49: the analysis resolves with a success variant and the search
\* is called, up to the second await.
AnalysisSucceeded ==
  /\ pc = "awaitFind"
  /\ analysis.kind = "result"
  /\ analysis.result.success
  /\ findResult' = analysis.result
  /\ out' = out \o <<[line |-> "query", query |-> analysis.result.searchQuery],
                     [line |-> "metadata"], [line |-> "separator"],
                     [line |-> "step2"]>>
  /\ searchCalls' = Append(searchCalls, analysis.result.searchQuery)
  /\ promise' = searchProductPrices(env, analysis.result.searchQuery).promise
  /\ requests' = requests \o searchProductPrices(env, analysis.result.searchQuery).sent
  /\ pc' = "awaitSearch"
  /\ UNCHANGED <<labelCalls, input, output,
                 env, analysis, upstream, searchResults, completions, displayCalls>>

\* A plausible slip: the first await stands before the try block, so the
\* rejection leaves main.
AnalysisThrewUncaught ==
  /\ pc = "awaitFind"
  /\ analysis.kind = "throw"
  /\ pc' = "rejected"
  /\ UNCHANGED <<labelCalls, input, output,
                 env, analysis, upstream,
                 findResult, searchResults, promise, completions, requests,
                 searchCalls, displayCalls, out>>

\* main.ts:25, 61-65: the analysis call rejects.
AnalysisThrew ==
  /\ pc = "awaitFind"
  /\ analysis.kind = "throw"
  /\ out' = out \o <<[line |-> "fatal", error |-> analysis.message],
                     [line |-> "completed"]>>
  /\ pc' = "done"
  /\ UNCHANGED <<labelCalls, input, output,
                 env, analysis, upstream, findResult, searchResults, promise,
                 completions, requests, searchCalls, displayCalls>>

\* search-product.ts:53-66: getJson calls the callback with the response.
GetJsonResponds ==
  /\ promise.state = "pending"
  /\ completions = 0
  /\ upstream.kind = "json"
  /\ promise' = getJsonCallback(promise, upstream.json)
  /\ completions' = completions + 1
  /\ UNCHANGED <<labelCalls, input, output,
                 env, analysis, upstream, pc, findResult, searchResults,
                 requests, searchCalls, displayCalls, out>>

\* search-product.ts:67-69: getJson's promise rejects.
GetJsonFails ==
  /\ promise.state = "pending"
  /\ completions = 0
  /\ upstream.kind = "error"
  /\ promise' = getJsonCatch(promise, upstream.message)
  /\ completions' = completions + 1
  /\ UNCHANGED <<labelCalls, input, output,
                 env, analysis, upstream, pc, findResult, searchResults,
                 requests, searchCalls, displayCalls, out>>

\* A plausible slip: the handler treats a failed search as an empty result.
SearchRejectedShowsTable ==
  /\ pc = "awaitSearch"
  /\ promise.state = "rejected"
  /\ displayCalls' = Append(displayCalls, <<>>)
  /\ out' = out \o displayTable(<<>>) \o <<[line |-> "completed"]>>
  /\ pc' = "done"
  /\ UNCHANGED <<labelCalls, input, output,
                 env, analysis, upstream, findResult, searchResults, promise,
                 completions, requests, searchCalls>>

\* main.ts:49, 61-65: the search rejects; the handler reports it.
SearchRejected ==
  /\ pc = "awaitSearch"
  /\ promise.state = "rejected"
  /\ out' = out \o <<[line |-> "fatal", error |-> promise.error],
                     [line |-> "completed"]>>
  /\ pc' = "done"
  /\ UNCHANGED <<labelCalls, input, output,
                 env, analysis, upstream, findResult, searchResults, promise,
                 completions, requests, searchCalls, displayCalls>>

\* A plausible slip: the table is printed from the provider's listings.
SearchFulfilledShowsRaw ==
  /\ pc = "awaitSearch"
  /\ promise.state = "fulfilled"
  /\ searchResults' = promise.value
  /\ displayCalls' = Append(displayCalls, raw(upstream.json))
  /\ out' = out \o <<[line |-> "separator"], [line |-> "step3"]>>
              \o displayTable(raw(upstream.json))
              \o displayCaught(raw(upstream.json)) \o <<[line |-> "completed"]>>
  /\ pc' = "done"
  /\ UNCHANGED <<labelCalls, input, output,
                 env, analysis, upstream,
                 findResult, promise, completions, requests, searchCalls>>

\* main.ts:49-65: the search resolves; the table is printed, and an error
\* thrown while printing is caught and reported.
SearchFulfilled ==
  /\ pc = "awaitSearch"
  /\ promise.state = "fulfilled"
  /\ searchResults' = promise.value
  /\ displayCalls' = Append(displayCalls, promise.value)
  /\ out' = out \o <<[line |-> "separator"], [line |-> "step3"]>>
              \o displayTable(promise.value) \o displayCaught(promise.value)
              \o <<[line |-> "completed"]>>
  /\ pc' = "done"
  /\ UNCHANGED <<labelCalls, input, output,
                 env, analysis, upstream, findResult, promise, completions,
                 requests, searchCalls>>

Next ==
  \/ MainStart
  \/ AnalysisFailed
  \/ AnalysisSucceeded
  \/ AnalysisThrew
  \/ GetJsonResponds
  \/ GetJsonFails
  \/ SearchRejected
  \/ SearchFulfilled

Spec == Init /\ [][Next]_vars

\* main with a provider that may break the interface; every continuation
\* that is ready runs (the awaited calls settle).
SpecUntyped == InitUntyped /\ [][Next]_vars /\ WF_vars(Next)

---------------------------------------------------------------------------
(* searchProductPrices called on its own, on every short text *)

\* Code units of each class: space, BEL (a control character), "a", U+00E9.
TextAlphabet == {32, 7, 97, 233}

Texts == SeqsUpTo(TextAlphabet, MaxTextLen)

TextListings ==
  {[position |-> 1, title |-> t, link |-> "https://a.example/1", source |-> s,
    price |-> "Rs 1", extracted_price |-> 1] : t \in Texts, s \in Texts}

InitSearch ==
  /\ env \in Environments
  /\ analysis = [kind |-> "none"]
  /\ upstream \in {[kind |-> "json", json |-> [shopping_results |-> <<l>>]]
                     : l \in TextListings}
                    \cup {[kind |-> "error", message |-> "Request timed out"]}
  /\ pc = "caller"
  /\ findResult = NoResult
  /\ searchResults = <<>>
  /\ promise = NoPromise
  /\ completions = 0
  /\ requests = <<>>
  /\ searchCalls = <<>>
  /\ displayCalls = <<>>
  /\ out = <<>>
  /\ input = NoInput
  /\ output = <<>>
  /\ labelCalls = <<>>

\* search-product.ts:34-52: an importer calls searchProductPrices(query).
DirectCall ==
  /\ pc = "caller"
  /\ \E query \in {QueryText} :
       /\ searchCalls' = Append(searchCalls, query)
       /\ promise' = searchProductPrices(env, query).promise
       /\ requests' = requests \o searchProductPrices(env, query).sent
  /\ pc' = "awaitDirect"
  /\ UNCHANGED <<labelCalls, input, output,
                 env, analysis, upstream, findResult, searchResults,
                 completions, displayCalls, out>>

NextSearch ==
  \/ DirectCall
  \/ GetJsonResponds
  \/ GetJsonFails

SpecSearch == InitSearch /\ [][NextSearch]_vars

---------------------------------------------------------------------------
(* buildSearchQuery (find-product.ts is not among the sources; the steps *)
(* are those of the specification, section 4.2) *)

\* the, and, for, with, from, this, that, product, model
StopWords ==
  {<<116, 104, 101>>,
   <<97, 110, 100>>,
   <<102, 111, 114>>,
   <<119, 105, 116, 104>>,
   <<102, 114, 111, 109>>,
   <<116, 104, 105, 115>>,
   <<116, 104, 97, 116>>,
   <<112, 114, 111, 100, 117, 99, 116>>,
   <<109, 111, 100, 101, 108>>}

\* A plausible slip: the texts are compared as written.
toLowerCaseOmitted(s) == s

\* Step 2: lowercasing, code unit by code unit.
toLowerCase(s) == [i \in DOMAIN s |-> IF s[i] \in 65..90 THEN s[i] + 32 ELSE s[i]]

\* Step 2: splitting on runs of whitespace, empty tokens dropped.
RECURSIVE splitWords(_, _, _)
splitWords(s, word, acc) ==
  LET closed == IF word = <<>> THEN acc ELSE Append(acc, word) IN
  IF s = <<>> THEN closed
  ELSE IF Head(s) \in WhiteSpace THEN splitWords(Tail(s), <<>>, closed)
  ELSE splitWords(Tail(s), Append(word, Head(s)), acc)

tokenize(text) == splitWords(toLowerCase(text), <<>>, <<>>)

Range(s) == {s[i] : i \in DOMAIN s}

\* A plausible slip: `>= 2` for the length test.
keepsImageTokenInclusive(token, userTokens) ==
  /\ token \notin Range(userTokens)
  /\ Len(token) >= 2
  /\ token \notin StopWords

\* A plausible slip: `> 3` for the length test.
keepsImageTokenStrict(token, userTokens) ==
  /\ token \notin Range(userTokens)
  /\ Len(token) > 3
  /\ token \notin StopWords

\* Step 3: the three conditions an image token must satisfy.
keepsImageToken(token, userTokens) ==
  /\ token \notin Range(userTokens)
  /\ Len(token) > 2
  /\ token \notin StopWords

filterImageTokens(imageTokens, userTokens) ==
  SelectSeq(imageTokens, LAMBDA t : keepsImageToken(t, userTokens))

\* A plausible slip: only the image side is checked against the user side,
\* repeats within one side stay.
dedupeOmitted(s, acc) == s

\* Step 5: first occurrences only, in order.
RECURSIVE dedupe(_, _)
dedupe(s, acc) ==
  IF s = <<>> THEN acc
  ELSE dedupe(Tail(s), IF Head(s) \in Range(acc) THEN acc ELSE Append(acc, Head(s)))

\* Step 6: joining with single spaces.
RECURSIVE join(_)
join(ts) ==
  IF ts = <<>> THEN <<>>
  ELSE IF Len(ts) = 1 THEN ts[1]
  ELSE ts[1] \o <<32>> \o join(Tail(ts))

\* A plausible slip: the image tokens are put first.
buildSearchQueryImageFirst(userText, imageText) ==
  IF userText = <<>> /\ imageText = <<>> THEN <<>>
  ELSE LET userTokens == tokenize(userText)
           imageTokens == tokenize(imageText)
       IN trim(join(dedupe(filterImageTokens(imageTokens, userTokens) \o userTokens,
                           <<>>)))

buildSearchQuery(userText, imageText) ==
  IF userText = <<>> /\ imageText = <<>> THEN <<>>
  ELSE LET userTokens == tokenize(userText)
           imageTokens == tokenize(imageText)
       IN trim(join(dedupe(userTokens \o filterImageTokens(imageTokens, userTokens),
                           <<>>)))

\* The worked examples of the specification, section 8.
\* "iqoo neo" and "this iqoo neo 5g and model"
ExampleStopWords ==
  [userText |-> <<105, 113, 111, 111, 32, 110, 101, 111>>,
   imageText |->
     <<116, 104, 105, 115, 32, 105, 113, 111, 111, 32, 110, 101, 111, 32, 53, 103, 32,
      97, 110, 100, 32, 109, 111, 100, 101, 108>>]
\* "IQOO Neo" and "iqoo neo 5G"
ExampleCase ==
  [userText |-> <<73, 81, 79, 79, 32, 78, 101, 111>>,
   imageText |-> <<105, 113, 111, 111, 32, 110, 101, 111, 32, 53, 71>>]
\* "phone" and "5g ai pro"
ExampleShort ==
  [userText |-> <<112, 104, 111, 110, 101>>,
   imageText |-> <<53, 103, 32, 97, 105, 32, 112, 114, 111>>]
\* "galaxy s24" and ""
ExampleNoImage ==
  [userText |-> <<103, 97, 108, 97, 120, 121, 32, 115, 50, 52>>, imageText |-> <<>>]

\* Irregular whitespace and repeats: "  Pro  pro " and "<TAB>max<LF><LF>MAX  the "
ExampleSpacing ==
  [userText |-> <<32, 32, 80, 114, 111, 32, 32, 112, 114, 111, 32>>,
   imageText |-> <<9, 109, 97, 120, 10, 10, 77, 65, 88, 32, 32, 116, 104, 101, 32>>]

\* Tokens the generated inputs are made of: "pro", "Pro", "5g", "the", "x".
Vocabulary == {<<112, 114, 111>>, <<80, 114, 111>>, <<53, 103>>, <<116, 104, 101>>, <<120>>}

GeneratedTexts == {join(ts) : ts \in SeqsUpTo(Vocabulary, MaxTokens)}

QueryInputs ==
  {ExampleStopWords, ExampleCase, ExampleShort, ExampleNoImage, ExampleSpacing}
    \cup {[userText |-> u, imageText |-> i] : u \in GeneratedTexts, i \in GeneratedTexts}

InitQuery ==
  /\ env \in {[v \in {} |-> ""]}
  /\ analysis = [kind |-> "none"]
  /\ upstream = [kind |-> "none"]
  /\ pc = "build"
  /\ findResult = NoResult
  /\ searchResults = <<>>
  /\ promise = NoPromise
  /\ completions = 0
  /\ requests = <<>>
  /\ searchCalls = <<>>
  /\ displayCalls = <<>>
  /\ out = <<>>
  /\ input \in QueryInputs
  /\ output = <<>>
  /\ labelCalls = <<>>

\* One call buildSearchQuery(userText, imageText).
BuildQuery ==
  /\ pc = "build"
  /\ output' = buildSearchQuery(input.userText, input.imageText)
  /\ pc' = "built"
  /\ UNCHANGED <<labelCalls, input,
                 env, analysis, upstream, findResult, searchResults,
                 promise, completions, requests, searchCalls, displayCalls, out>>

NextQuery == BuildQuery

SpecQuery == InitQuery /\ [][NextQuery]_vars

---------------------------------------------------------------------------
(* findProductFeatures (find-product.ts is not among the sources; the    *)
(* steps are those of the specification, sections 4.1, 4.3, 6 and 7).    *)
(* A value is a record tagged with its JavaScript type; a property that  *)
(* is not set reads as [type |-> "undefined"].                           *)

Undefined == [type |-> "undefined"]
Text(t) == [type |-> "string", text |-> t]
NotText == [type |-> "number"]

\* jpg, jpeg, png, gif, bmp, webp
SupportedFormats ==
  {<<106, 112, 103>>,
   <<106, 112, 101, 103>>,
   <<112, 110, 103>>,
   <<103, 105, 102>>,
   <<98, 109, 112>>,
   <<119, 101, 98, 112>>}

\* Entries of `images`: a path with its extension and what the file system
\* holds under it, or a value that is no text.
ImageEntries ==
  {[type |-> "string", path |-> "test/test1.jpeg", ext |-> <<106, 112, 101, 103>>,
    exists |-> TRUE, readable |-> TRUE],
   [type |-> "string", path |-> "test/front.PNG", ext |-> <<80, 78, 71>>,
    exists |-> TRUE, readable |-> TRUE],
   [type |-> "string", path |-> "test/scan.tiff", ext |-> <<116, 105, 102, 102>>,
    exists |-> TRUE, readable |-> TRUE],
   [type |-> "string", path |-> "./missing.jpg", ext |-> <<106, 112, 103>>,
    exists |-> FALSE, readable |-> FALSE],
   [type |-> "string", path |-> "test/locked.jpg", ext |-> <<106, 112, 103>>,
    exists |-> TRUE, readable |-> FALSE],
   NotText}

\* "IQOO neo 10r", "12 + 256", "neo"
ProductNameText == <<73, 81, 79, 79, 32, 110, 101, 111, 32, 49, 48, 114>>
SpecificationText == <<49, 50, 32, 43, 32, 50, 53, 54>>
ProductModelText == <<110, 101, 111>>

\* The options values: an object with each property set or not set, or a
\* value that is no object.
OptionsValues ==
  {[type |-> "object", productName |-> n, productModel |-> m,
    specification |-> sp, images |-> im]
     : n \in {Undefined, Text(<<>>), Text(ProductNameText), NotText},
       m \in {Undefined, Text(ProductModelText)},
       sp \in {Undefined, Text(SpecificationText), NotText},
       im \in {Undefined}
               \cup {[type |-> "array", items |-> is]
                       : is \in SeqsUpTo(ImageEntries, MaxImages)}}
    \cup {[type |-> "string"]}

\* How the labeler call settles: content (possibly empty) or an error.
\* "iQOO Neo 10R<LF> 5G  Smartphone "
LabelText ==
  <<105, 81, 79, 79, 32, 78, 101, 111, 32, 49, 48, 82, 10, 32, 53, 71, 32, 32, 83, 109, 97, 114, 116, 112, 104, 111, 110, 101, 32>>
LabelerOutcomes ==
  {[kind |-> "content", text |-> LabelText], [kind |-> "content", text |-> <<>>],
   [kind |-> "throw", message |-> "Labeler request failed"]}

TextFields == <<"productName", "productModel", "specification">>

\* The first complaint about the entries of `images`, "" when there is none.
RECURSIVE imagesError(_)
imagesError(items) ==
  IF items = <<>> THEN ""
  ELSE LET e == Head(items) IN
       IF e.type # "string" THEN "images must contain strings"
       ELSE IF ~e.exists THEN "Image file not found: " \o e.path
       ELSE IF toLowerCase(e.ext) \notin SupportedFormats
         THEN "Unsupported image format: " \o e.path
       ELSE imagesError(Tail(items))

\* A plausible slip: an input without any usable field is rejected.
validateRequiringInput(options) ==
  IF options.type # "object" THEN "options must be an object"
  ELSE IF \E i \in DOMAIN TextFields :
            options[TextFields[i]].type \notin {"undefined", "string"}
    THEN LET i == CHOOSE k \in DOMAIN TextFields :
                    /\ options[TextFields[k]].type \notin {"undefined", "string"}
                    /\ \A j \in 1..(k - 1) :
                         options[TextFields[j]].type \in {"undefined", "string"}
         IN TextFields[i] \o " must be a string"
  ELSE IF options.images.type = "array" /\ options.images.items # <<>>
    THEN imagesError(options.images.items)
  ELSE IF \A i \in DOMAIN TextFields : options[TextFields[i]].type = "undefined"
    THEN "No input provided"
  ELSE ""

\* Section 4.1: the message of the ValidationError, "" when the input is valid.
validate(options) ==
  IF options.type # "object" THEN "options must be an object"
  ELSE IF \E i \in DOMAIN TextFields :
            options[TextFields[i]].type \notin {"undefined", "string"}
    THEN LET i == CHOOSE k \in DOMAIN TextFields :
                    /\ options[TextFields[k]].type \notin {"undefined", "string"}
                    /\ \A j \in 1..(k - 1) :
                         options[TextFields[j]].type \in {"undefined", "string"}
         IN TextFields[i] \o " must be a string"
  ELSE IF options.images.type = "array" THEN imagesError(options.images.items)
  ELSE ""

\* The images supplied, none when the property is not set.
imagesOf(options) ==
  IF options.images.type = "array" THEN options.images.items ELSE <<>>

\* Reading the image files: the message of the error, "" when all are read.
readError(items) ==
  IF \E i \in DOMAIN items : ~items[i].readable
    THEN "Cannot read image file: "
           \o items[CHOOSE i \in DOMAIN items :
                      /\ ~items[i].readable
                      /\ \A j \in 1..(i - 1) : items[j].readable].path
    ELSE ""

\* Section 4.3 (a): the fields that are set and not empty, joined by spaces.
userTextOf(options) ==
  LET texts == [i \in DOMAIN TextFields |->
                  IF options[TextFields[i]].type = "string"
                    THEN options[TextFields[i]].text ELSE <<>>]
  IN join(SelectSeq(texts, LAMBDA t : t # <<>>))

\* Section 4.3 (c): runs of whitespace, newlines included, become one space.
RECURSIVE collapseWhiteSpace(_)
collapseWhiteSpace(s) ==
  IF s = <<>> THEN s
  ELSE IF Head(s) \in WhiteSpace
    THEN <<32>> \o collapseWhiteSpace(trimStart(Tail(s)))
  ELSE <<Head(s)>> \o collapseWhiteSpace(Tail(s))

normalizeLabel(text) == trim(collapseWhiteSpace(text))

DefaultProvider == "default-provider"
DefaultModel == "default-model"

failure(message, now) ==
  [success |-> FALSE, error |-> message, metadata |-> [timestamp |-> now]]

success(options, label, now) ==
  [success |-> TRUE,
   searchQuery |-> buildSearchQuery(userTextOf(options), label),
   metadata |-> [provider |-> DefaultProvider, model |-> DefaultModel,
                 userText |-> userTextOf(options), imageProductName |-> label,
                 imageCount |-> Len(imagesOf(options)), timestamp |-> now]]

\* What stops the analysis before the labeler: the message, "" when nothing.
earlyError(options) ==
  IF validate(options) # "" THEN validate(options)
  ELSE readError(imagesOf(options))

InitFind ==
  /\ env \in {[v \in {} |-> ""]}
  /\ analysis = [kind |-> "none"]
  /\ upstream = [kind |-> "none"]
  /\ pc = "find"
  /\ findResult = NoResult
  /\ searchResults = <<>>
  /\ promise = NoPromise
  /\ completions = 0
  /\ requests = <<>>
  /\ searchCalls = <<>>
  /\ displayCalls = <<>>
  /\ out = <<>>
  /\ input \in {[options |-> o, labeler |-> l, now |-> "2026-01-01T00:00:00.000Z"]
                  : o \in OptionsValues, l \in LabelerOutcomes}
  /\ output = <<>>
  /\ labelCalls = <<>>

FindFrame ==
  UNCHANGED <<input, env, analysis, upstream, findResult, searchResults,
              promise, completions, requests, searchCalls, displayCalls, out>>

\* A plausible slip: validation runs outside the try block and its error
\* escapes to the caller.
FindRejectsInputThrowing ==
  /\ pc = "find"
  /\ earlyError(input.options) # ""
  /\ pc' = "threw"
  /\ UNCHANGED <<output, labelCalls>>
  /\ FindFrame

\* Validation or file reading raises; the error becomes a failure variant.
FindRejectsInput ==
  /\ pc = "find"
  /\ earlyError(input.options) # ""
  /\ output' = failure(earlyError(input.options), input.now)
  /\ pc' = "found"
  /\ UNCHANGED labelCalls
  /\ FindFrame

\* Valid input without images: no labeler call, the label is empty.
FindWithoutImages ==
  /\ pc = "find"
  /\ earlyError(input.options) = ""
  /\ imagesOf(input.options) = <<>>
  /\ output' = success(input.options, normalizeLabel(<<>>), input.now)
  /\ pc' = "found"
  /\ UNCHANGED labelCalls
  /\ FindFrame

\* Valid input with images: the labeler is called and awaited.
FindCallsLabeler ==
  /\ pc = "find"
  /\ earlyError(input.options) = ""
  /\ imagesOf(input.options) # <<>>
  /\ labelCalls' = Append(labelCalls,
                          [images |-> imagesOf(input.options),
                           provider |-> DefaultProvider, model |-> DefaultModel])
  /\ pc' = "awaitLabel"
  /\ UNCHANGED output
  /\ FindFrame

\* The labeler returns content; empty content fails the analysis.
LabelerResolves ==
  /\ pc = "awaitLabel"
  /\ input.labeler.kind = "content"
  /\ output' = IF input.labeler.text = <<>>
                 THEN failure("Labeler returned no content", input.now)
                 ELSE success(input.options, normalizeLabel(input.labeler.text),
                              input.now)
  /\ pc' = "found"
  /\ UNCHANGED labelCalls
  /\ FindFrame

\* The labeler call fails; the error becomes a failure variant.
LabelerRejects ==
  /\ pc = "awaitLabel"
  /\ input.labeler.kind = "throw"
  /\ output' = failure(input.labeler.message, input.now)
  /\ pc' = "found"
  /\ UNCHANGED labelCalls
  /\ FindFrame

NextFind ==
  \/ FindRejectsInput
  \/ FindWithoutImages
  \/ FindCallsLabeler
  \/ LabelerResolves
  \/ LabelerRejects

SpecFind == InitFind /\ [][NextFind]_vars

---------------------------------------------------------------------------
(* Properties *)

HasResult == "success" \in DOMAIN findResult

Last(s) == s[Len(s)]

LinesOf(kinds) == SelectSeq(out, LAMBDA l : l.line \in kinds)

\* C1: whenever the analysis returned a failure variant, main has reported
\* the error as its last line and has returned; searchProductPrices,
\* getJson and displayTable have not been called in that run.
C1_FailureHalts ==
  (HasResult /\ ~findResult.success) =>
    /\ pc = "returned"
    /\ Last(out) = [line |-> "errorBuilding", error |-> findResult.error]
    /\ searchCalls = <<>>
    /\ requests = <<>>
    /\ displayCalls = <<>>
    /\ promise = NoPromise

C1_Witness == pc = "returned" /\ HasResult /\ ~findResult.success

\* C2 (as claimed): no call of searchProductPrices and no request to the
\* provider carries the empty query, whatever the analysis returned.
C2_NeverEmptyQuery ==
  /\ \A i \in DOMAIN searchCalls : searchCalls[i] # <<>>
  /\ \A i \in DOMAIN requests : requests[i].q # <<>>

\* C3: without a configured credential (unset or empty), a call of
\* searchProductPrices is rejected with the error naming the credential and
\* no request has been handed to the provider.
C3_MissingCredential ==
  (NoApiKey(env) /\ searchCalls # <<>>) =>
    /\ promise.state = "rejected"
    /\ promise.error = CredentialName \o " not found in environment variables"
    /\ requests = <<>>
    /\ completions = 0

C3_Witness ==
  /\ CredentialName \in DOMAIN env
  /\ NoApiKey(env)
  /\ searchCalls # <<>>
  /\ promise.state = "rejected"

\* C4: with a credential, one request is issued per call; the promise is
\* pending until getJson completes; after getJson rejected, the promise is
\* rejected with the search error and holds no listings; after the callback
\* ran, it is fulfilled; getJson completes at most once.
C4_UpstreamErrorRejects ==
  (~NoApiKey(env) /\ searchCalls # <<>>) =>
    /\ Len(requests) = Len(searchCalls)
    /\ completions <= 1
    /\ (completions = 0 => promise = Pending)
    /\ (completions = 1 /\ upstream.kind = "error" =>
          promise = [state |-> "rejected", value |-> <<>>,
                     error |-> "SerpAPI search failed: " \o upstream.message])
    /\ (completions = 1 /\ upstream.kind = "json" =>
          promise.state = "fulfilled" /\ promise.error = "")

C4_Witness ==
  /\ ~NoApiKey(env)
  /\ upstream.kind = "error"
  /\ completions = 1
  /\ promise.state = "rejected"

\* C6: when the response has no shopping_results array, the promise is
\* fulfilled with the empty sequence once the callback ran, and main hands
\* that empty sequence to displayTable and reports no fatal error.
C6_NoArrayIsEmpty ==
  (upstream.kind = "json" /\ "shopping_results" \notin DOMAIN upstream.json
     /\ completions = 1) =>
    /\ promise = [state |-> "fulfilled", value |-> <<>>, error |-> ""]
    /\ (pc = "done" =>
          /\ displayCalls = << <<>> >>
          /\ LinesOf({"fatal"}) = <<>>
          /\ LinesOf({"No results found!"}) # <<>>)

C6_Witness ==
  /\ upstream.kind = "json"
  /\ "shopping_results" \notin DOMAIN upstream.json
  /\ pc = "done"
  /\ displayCalls # <<>>

\* C7 (as claimed): in every data row each of the three cells is no longer
\* than its column width.
C7_CellsFitColumns ==
  \A i \in DOMAIN out :
    out[i].line = "row" =>
      /\ Len(out[i].ecommerce) <= columnWidths.ecommerce
      /\ Len(out[i].price) <= columnWidths.price
      /\ Len(out[i].title) <= columnWidths.title

C9_SearchFailurePropagates ==
  (promise.state = "rejected") =>
    /\ HasResult /\ findResult.success /\ findResult.error = ""
    /\ displayCalls = <<>>
    /\ (pc = "done" =>
          /\ LinesOf({"fatal"}) = <<[line |-> "fatal", error |-> promise.error]>>
          /\ LinesOf({"row", "No results found!", "total"}) = <<>>)

C9_Witness ==
  /\ promise.state = "rejected"
  /\ upstream.kind = "error"
  /\ ~NoApiKey(env)
  /\ pc = "done"

\* Listings searchProductPrices resolved with.
Resolved == IF promise.state = "fulfilled" THEN promise.value ELSE <<>>

NoOuterWhiteSpace(s) ==
  s = <<>> \/ (Head(s) \notin WhiteSpace /\ Last(s) \notin WhiteSpace)

\* C5 (as claimed): every resolved title and source holds printable Basic
\* Latin characters only (U+0020..U+007E) and has no leading or trailing
\* whitespace.
C5_PrintableOnly ==
  \A i \in DOMAIN Resolved :
    \A f \in {"title", "source"} :
      /\ \A k \in DOMAIN Resolved[i][f] : Resolved[i][f][k] \in 32..126
      /\ NoOuterWhiteSpace(Resolved[i][f])

\* C5 (amended): every resolved title and source holds Basic Latin code
\* units only (U+0000..U+007F, control characters included) and has no
\* leading or trailing whitespace.
C5_BasicLatinTrimmed ==
  \A i \in DOMAIN Resolved :
    \A f \in {"title", "source"} :
      /\ \A k \in DOMAIN Resolved[i][f] : Resolved[i][f][k] \in 0..127
      /\ NoOuterWhiteSpace(Resolved[i][f])

C5_Witness ==
  /\ promise.state = "fulfilled"
  /\ Len(promise.value) = 1
  /\ upstream.json.shopping_results[1].title = <<233, 32, 97>>
  /\ promise.value[1].title = <<97>>
  /\ upstream.json.shopping_results[1].source = <<32, 7, 233>>
  /\ promise.value[1].source = <<7>>

\* C10 (as claimed): buildSearchQuery("iqoo neo", "this iqoo neo 5g and
\* model") filters the image tokens to [5g] and returns "iqoo neo 5g".
C10_ExampleKeeps5g ==
  (pc = "built" /\ input = ExampleStopWords) =>
    /\ tokenize(input.userText) = <<<<105, 113, 111, 111>>, <<110, 101, 111>>>>
    /\ filterImageTokens(tokenize(input.imageText), tokenize(input.userText))
         = <<<<53, 103>>>>
    /\ output = <<105, 113, 111, 111, 32, 110, 101, 111, 32, 53, 103>>

\* C10 (amended): for that input the user tokens are [iqoo, neo], no image
\* token passes the filter (5g has length 2) and the result is "iqoo neo";
\* for every input the filter keeps exactly the image tokens that are not
\* user tokens, are longer than 2 and are no stop-word.
C10_ExampleDrops5g ==
  (pc = "built") =>
    /\ (input = ExampleStopWords =>
          /\ tokenize(input.userText) = <<<<105, 113, 111, 111>>, <<110, 101, 111>>>>
          /\ output = <<105, 113, 111, 111, 32, 110, 101, 111>>)
    /\ LET user == tokenize(input.userText)
           image == tokenize(input.imageText)
           surplus == SubSeq(tokenize(output), Len(dedupe(user, <<>>)) + 1,
                             Len(tokenize(output)))
       IN Range(surplus) =
            {t \in Range(image) :
               t \notin Range(user) /\ Len(t) > 2 /\ t \notin StopWords}

C10_Witness == pc = "built" /\ input = ExampleStopWords /\ output # <<>>

\* Token sequences of the call under check.
UserTokens == tokenize(input.userText)
ImageTokens == tokenize(input.imageText)
OutputTokens == splitWords(output, <<>>, <<>>)

\* Position of the first occurrence of t in s.
FirstIndex(s, t) == CHOOSE i \in DOMAIN s : s[i] = t /\ \A j \in 1..(i - 1) : s[j] # t

\* C11: a token that occurs only in the image text and has length 1 or 2 is
\* never in the output, an image-only token of length 3 that is no stop-word
\* is in the output, and buildSearchQuery("phone", "5g ai pro") is
\* "phone pro".
C11_ShortTokensDropped ==
  (pc = "built") =>
    /\ \A t \in Range(ImageTokens) \ Range(UserTokens) :
         /\ Len(t) <= 2 => t \notin Range(OutputTokens)
         /\ (Len(t) = 3 /\ t \notin StopWords) => t \in Range(OutputTokens)
    /\ (input = ExampleShort => output = <<112, 104, 111, 110, 101, 32, 112, 114, 111>>)

C11_Witness ==
  /\ pc = "built"
  /\ input = ExampleShort
  /\ <<53, 103>> \in Range(ImageTokens) \ Range(OutputTokens)
  /\ <<112, 114, 111>> \in Range(OutputTokens)

AnalysisError ==
  IF earlyError(input.options) # "" THEN earlyError(input.options)
  ELSE IF imagesOf(input.options) = <<>> THEN ""
  ELSE IF input.labeler.kind = "throw" THEN input.labeler.message
  ELSE IF input.labeler.text = <<>> THEN "Labeler returned no content"
  ELSE ""

StepLines == LinesOf({"step1", "step2", "step3"})

\* C17: searchProductPrices is called at most once, only with a success
\* variant in hand and with its searchQuery; displayTable is called at most
\* once, only after the search resolved and with the listings it resolved
\* with; the step lines appear in the order 1, 2, 3.
C17_StepsInOrder ==
  /\ Len(searchCalls) <= 1
  /\ Len(displayCalls) <= 1
  /\ Len(requests) <= Len(searchCalls)
  /\ (searchCalls # <<>> =>
        /\ HasResult
        /\ findResult.success
        /\ searchCalls[1] = findResult.searchQuery)
  /\ (displayCalls # <<>> =>
        /\ searchCalls # <<>>
        /\ promise.state = "fulfilled"
        /\ displayCalls[1] = promise.value
        /\ searchResults = promise.value)
  /\ StepLines = SubSeq(<<[line |-> "step1"], [line |-> "step2"], [line |-> "step3"]>>,
                        1, Len(StepLines))
  /\ (Len(StepLines) >= 2 <=> searchCalls # <<>>)
  /\ (Len(StepLines) = 3 <=> displayCalls # <<>>)

C17_Witness ==
  /\ pc = "done"
  /\ Len(displayCalls) = 1
  /\ displayCalls[1] # <<>>
  /\ displayCalls[1] # raw(upstream.json)

FrameFields ==
  {"position", "link", "price", "extracted_price", "rating", "reviews", "thumbnail"}

\* C18: the listings searchProductPrices resolved with are as many as the
\* provider's, in the same order, and each has the provider's position,
\* link, price, extracted_price, rating, reviews and thumbnail, set or not
\* set as the provider sent them.
C18_OnlyTitleAndSourceChange ==
  (promise.state = "fulfilled") =>
    LET sent == IF "shopping_results" \in DOMAIN upstream.json
                  THEN upstream.json.shopping_results ELSE <<>>
    IN /\ Len(promise.value) = Len(sent)
       /\ \A i \in DOMAIN sent :
            \A f \in FrameFields :
              /\ f \in DOMAIN promise.value[i] <=> f \in DOMAIN sent[i]
              /\ f \in DOMAIN sent[i] => promise.value[i][f] = sent[i][f]

C18_Witness ==
  /\ promise.state = "fulfilled"
  /\ Len(promise.value) = 2
  /\ promise.value[1].position = 3
  /\ promise.value[1].title # upstream.json.shopping_results[1].title
  /\ promise.value[2].position = 1
  /\ promise.value[2].rating = 4

Finished == pc \in {"done", "returned"}

\* C19: main reaches its end; it never ends by rejecting; an error of the
\* analysis call, of the search call or of displayTable is reported by the
\* handler; the completion line is the last line when main is done and is
\* absent after the early return, which is taken only for a failure
\* variant.
C19_MainTerminates ==
  /\ <>Finished
  /\ [](pc \in {"main", "awaitFind", "awaitSearch", "done", "returned"})
  /\ [](pc = "done" =>
          /\ Last(out) = [line |-> "completed"]
          /\ Len(LinesOf({"completed"})) = 1
          /\ (analysis.kind = "throw" =>
                LinesOf({"fatal"}) = <<[line |-> "fatal", error |-> analysis.message]>>)
          /\ (promise.state = "rejected" =>
                LinesOf({"fatal"}) = <<[line |-> "fatal", error |-> promise.error]>>)
          /\ (promise.state = "fulfilled" =>
                (LinesOf({"fatal"}) # <<>> <=> LinesOf({"total"}) = <<>>)))
  /\ [](pc = "returned" =>
          /\ HasResult
          /\ ~findResult.success
          /\ LinesOf({"completed"}) = <<>>)
  /\ []((HasResult /\ findResult.success) => pc # "returned")

C19_Witness ==
  /\ pc = "done"
  /\ promise.state = "fulfilled"
  /\ Len(promise.value) = 2
  /\ "extracted_price" \notin DOMAIN promise.value[2]
  /\ Len(LinesOf({"row"})) = 1
  /\ LinesOf({"fatal"}) # <<>>
  /\ Last(out) = [line |-> "completed"]

====
